---- MODULE Spec2Model ----
(***************************************************************************)
(* Model of apps/sync-server/backend/mock_sync_server.py: a threading HTTP *)
(* server (http.server.ThreadingHTTPServer) with the request handler       *)
(* SyncHandler.  One handler thread per accepted connection; the main      *)
(* thread runs the accept loop until a KeyboardInterrupt.                  *)
(*                                                                         *)
(* Bytes and characters are integers (byte values, Unicode code points).   *)
(* Header values are sequences of one-character strings.                   *)
(***************************************************************************)
EXTENDS Integers, Sequences, FiniteSets, TLC

\* ------------------------------------------------------------------ bounds
\* Number of connections the clients open over the server's lifetime.
NumConns == 2
Conns == 1..NumConns

\* ------------------------------------------------------------ input domains
\* The byte strings a handler's rfile.read returns: nothing, "A" and the lead
\* byte 0xC3 alone (not valid UTF-8).
Bodies == { <<>>, <<65>>, <<195>> }

Methods == {"GET", "POST", "PUT"}

Paths == {"/v1/health", "/v1/sync", "/v1/sync?full=1"}

\* Content-Length header values a client may send: a length, a negative
\* number and a value that is no number.
ContentLengthValues == { <<"1">>, <<"-", "2">>, <<"a">> }

\* Header sets of a request: no Content-Length header, or one.
HeaderSets == {{}} \cup { {<<"Content-Length", v>>} : v \in ContentLengthValues }

\* The requests clients send.  POST /v1/sync comes with every header set, the
\* other requests without a Content-Length header.
Requests ==
    { [method |-> "POST", path |-> "/v1/sync", headers |-> h] : h \in HeaderSets }
    \cup { [method |-> m, path |-> p, headers |-> {}] : m \in Methods, p \in Paths }

\* ------------------------------------------------------------ pure helpers
\* self.headers.get(name, default)
HeadersGet(headers, name, default) ==
    IF \E p \in headers : p[1] = name
    THEN (CHOOSE p \in headers : p[1] = name)[2]
    ELSE default

Digits == {"0", "1", "2", "3", "4", "5", "6", "7", "8", "9"}

DigitVal(ch) ==
    CASE ch = "0" -> 0 [] ch = "1" -> 1 [] ch = "2" -> 2 [] ch = "3" -> 3
      [] ch = "4" -> 4 [] ch = "5" -> 5 [] ch = "6" -> 6 [] ch = "7" -> 7
      [] ch = "8" -> 8 [] ch = "9" -> 9

DigitChar(d) ==
    CASE d = 0 -> "0" [] d = 1 -> "1" [] d = 2 -> "2" [] d = 3 -> "3"
      [] d = 4 -> "4" [] d = 5 -> "5" [] d = 6 -> "6" [] d = 7 -> "7"
      [] d = 8 -> "8" [] d = 9 -> "9"

RECURSIVE DigitsVal(_)
DigitsVal(s) ==
    IF s = <<>> THEN 0
    ELSE 10 * DigitsVal(SubSeq(s, 1, Len(s) - 1)) + DigitVal(s[Len(s)])

AllDigits(s) == Len(s) > 0 /\ \A i \in 1..Len(s) : s[i] \in Digits

\* int(s): an optional sign, then decimal digits; anything else is a ValueError.
PyInt(s) ==
    IF AllDigits(s) THEN [ok |-> TRUE, val |-> DigitsVal(s)]
    ELSE IF Len(s) > 1 /\ s[1] = "-" /\ AllDigits(Tail(s))
         THEN [ok |-> TRUE, val |-> 0 - DigitsVal(Tail(s))]
    ELSE IF Len(s) > 1 /\ s[1] = "+" /\ AllDigits(Tail(s))
         THEN [ok |-> TRUE, val |-> DigitsVal(Tail(s))]
    ELSE [ok |-> FALSE, val |-> 0]

\* str(n) for n >= 0
RECURSIVE PyStr(_)
PyStr(n) ==
    IF n < 10 THEN <<DigitChar(n)>>
    ELSE Append(PyStr(n \div 10), DigitChar(n % 10))

IsContinuation(b) == b >= 128 /\ b <= 191
IsLead2(b) == b >= 194 /\ b <= 223

\* bytes.decode("utf-8", errors="replace") on bytes below 0xE0: ASCII is kept,
\* a two-byte sequence becomes its code point, every other byte becomes U+FFFD.
RECURSIVE Utf8DecodeReplace(_)
Utf8DecodeReplace(bs) ==
    IF bs = <<>> THEN <<>>
    ELSE IF bs[1] < 128 THEN <<bs[1]>> \o Utf8DecodeReplace(Tail(bs))
    ELSE IF IsLead2(bs[1]) /\ Len(bs) >= 2 /\ IsContinuation(bs[2])
         THEN <<(bs[1] - 192) * 64 + (bs[2] - 128)>>
              \o Utf8DecodeReplace(Tail(Tail(bs)))
    ELSE <<65533>> \o Utf8DecodeReplace(Tail(bs))

\* Response bodies, as ASCII bytes.
OkBody == <<111, 107>>                                           \* b"ok"
NotFoundBody == <<110, 111, 116, 32, 102, 111, 117, 110, 100>>    \* b"not found"
SyncFailedBody ==
    <<115, 121, 110, 99, 32, 102, 97, 105, 108, 101, 100>>        \* b"sync failed"
AcceptedBody == <<97, 99, 99, 101, 112, 116, 101, 100>>           \* b"accepted"
\* The library's HTML error page, cut to "<!DOCTYPE".
ErrorPageBody == <<60, 33, 68, 79, 67, 84, 89, 80, 69>>

Marker == "[mock-sync-server] received sync request:"

\* ------------------------------------------------------------------- state
VARIABLES
    fail_sync,       \* server.fail_sync, set from --fail-sync before serving
    main,            \* where the main thread is: serving, closed, exited
    sockOpen,        \* the listening socket is open
    exitCode,        \* -1 while the process runs, then its exit status
    pc,              \* per connection: where its handler thread is
    req,             \* per connection: the parsed request (<<>> before it is read)
    content_length,  \* per connection: do_POST's local content_length
    raw,             \* per connection: the bytes rfile.read returned
    body,            \* per connection: do_POST's local body (decoded text)
    resp,            \* per connection: the responses written to wfile, in order
    stdout,          \* lines printed to standard output, in order
    stderr           \* lines written to standard error, in order

vars == <<fail_sync, main, sockOpen, exitCode, pc, req, content_length, raw,
          body, resp, stdout, stderr>>

NoRequest == [method |-> "", path |-> "", headers |-> {}]

\* ------------------------------------------------------- handler operators
\* The library's own log_message: one access line per request.
log_message_Default(err, c) == Append(err, [kind |-> "access", by |-> c])

\* SyncHandler.log_message: writes nothing.
log_message(err, c) == err

\* BaseHTTPRequestHandler.send_response -> log_request -> self.log_message
log_request(err, c) == log_message(err, c)

\* _send with a Content-Length that counts one byte too many.
_send_WrongLength(status, b) ==
    [status |-> status,
     content_type |-> "text/plain",
     content_length |-> PyStr(Len(b) + 1),
     body |-> b]

\* SyncHandler._send: status line, the two headers, then the body.
_send(status, b) ==
    [status |-> status,
     content_type |-> "text/plain",
     content_length |-> PyStr(Len(b)),
     body |-> b]

\* BaseHTTPRequestHandler.send_error(501): an HTML page, no body for HEAD.
send_error(status, method) ==
    [status |-> status,
     content_type |-> "text/html;charset=utf-8",
     content_length |-> PyStr(Len(ErrorPageBody)),
     body |-> IF method = "HEAD" THEN <<>> ELSE ErrorPageBody]

\* do_GET with a health check that follows the failure mode.
do_GET_FailAware(path) ==
    IF path = "/v1/health"
    THEN IF fail_sync THEN _send(500, SyncFailedBody) ELSE _send(200, OkBody)
    ELSE _send(404, NotFoundBody)

\* SyncHandler.do_GET
do_GET(path) ==
    IF path = "/v1/health" THEN _send(200, OkBody) ELSE _send(404, NotFoundBody)

\* The tail of do_POST with the mode test lost: always the failure response.
SyncResponse_AlwaysFail(fail) == _send(500, SyncFailedBody)

\* The tail of SyncHandler.do_POST: the response by the startup mode.
SyncResponse(fail) ==
    IF fail THEN _send(500, SyncFailedBody) ELSE _send(202, AcceptedBody)

\* socketserver.BaseServer.handle_error: a traceback on standard error.
handle_error(err, c) == Append(err, [kind |-> "traceback", by |-> c])

\* --------------------------------------------------------------------- Init
\* main() up to serve_forever: the server is bound, fail_sync is set from the
\* flag and the two banner lines are printed.
Banner(fail) ==
    << [by |-> 0, kind |-> "banner", text |-> IF fail THEN "fail" ELSE "normal"],
       [by |-> 0, kind |-> "banner", text |-> "endpoints"] >>

Init ==
    /\ fail_sync \in BOOLEAN
    /\ main = "serving"
    /\ sockOpen = TRUE
    /\ exitCode = -1
    /\ pc = [c \in Conns |-> "idle"]
    /\ req = [c \in Conns |-> NoRequest]
    /\ content_length = [c \in Conns |-> 0]
    /\ raw = [c \in Conns |-> <<>>]
    /\ body = [c \in Conns |-> <<>>]
    /\ resp = [c \in Conns |-> <<>>]
    /\ stdout = Banner(fail_sync)
    /\ stderr = <<>>

\* ------------------------------------------------------------------ actions
\* The accept loop of a server without threads: the next connection is accepted
\* only when no handler is running.
Accept_Serial(c) ==
    /\ main = "serving"
    /\ sockOpen
    /\ pc[c] = "idle"
    /\ \A d \in Conns : d < c => pc[d] # "idle"
    /\ \A d \in Conns : pc[d] \in {"idle", "done", "raised", "killed"}
    /\ pc' = [pc EXCEPT ![c] = "accepted"]
    /\ UNCHANGED <<fail_sync, main, sockOpen, exitCode, req, content_length,
                   raw, body, resp, stdout, stderr>>

\* serve_forever: accept the next connection and start its handler thread.
Accept(c) ==
    /\ main = "serving"
    /\ sockOpen
    /\ pc[c] = "idle"
    /\ \A d \in Conns : d < c => pc[d] # "idle"
    /\ pc' = [pc EXCEPT ![c] = "accepted"]
    /\ UNCHANGED <<fail_sync, main, sockOpen, exitCode, req, content_length,
                   raw, body, resp, stdout, stderr>>

\* handle_one_request with a method the handler has no do_ method for.
Unsupported(c, r) ==
    /\ pc[c] = "accepted"
    /\ r.method \notin {"GET", "POST"}
    /\ req' = [req EXCEPT ![c] = r]
    /\ resp' = [resp EXCEPT ![c] = Append(@, send_error(501, r.method))]
    /\ stderr' = log_message(stderr, c)
    /\ pc' = [pc EXCEPT ![c] = "done"]
    /\ UNCHANGED <<fail_sync, main, sockOpen, exitCode, content_length, raw,
                   body, stdout>>

\* handle_one_request -> do_GET
Get(c, r) ==
    /\ pc[c] = "accepted"
    /\ r.method = "GET"
    /\ req' = [req EXCEPT ![c] = r]
    /\ resp' = [resp EXCEPT ![c] = Append(@, do_GET(r.path))]
    /\ stderr' = log_request(stderr, c)
    /\ pc' = [pc EXCEPT ![c] = "done"]
    /\ UNCHANGED <<fail_sync, main, sockOpen, exitCode, content_length, raw,
                   body, stdout>>

\* handle_one_request -> do_POST on a path other than /v1/sync
PostNotFound(c, r) ==
    /\ pc[c] = "accepted"
    /\ r.method = "POST"
    /\ r.path # "/v1/sync"
    /\ req' = [req EXCEPT ![c] = r]
    /\ resp' = [resp EXCEPT ![c] = Append(@, _send(404, NotFoundBody))]
    /\ stderr' = log_request(stderr, c)
    /\ pc' = [pc EXCEPT ![c] = "done"]
    /\ UNCHANGED <<fail_sync, main, sockOpen, exitCode, content_length, raw,
                   body, stdout>>

\* do_POST on /v1/sync, the int(...) of the Content-Length header: the value,
\* or a ValueError that leaves the handler.
PostSync(c, r) ==
    /\ pc[c] = "accepted"
    /\ r.method = "POST"
    /\ r.path = "/v1/sync"
    /\ req' = [req EXCEPT ![c] = r]
    /\ LET n == PyInt(HeadersGet(r.headers, "Content-Length", <<"0">>))
       IN  IF n.ok
           THEN /\ content_length' = [content_length EXCEPT ![c] = n.val]
                /\ pc' = [pc EXCEPT ![c] = "reading"]
                /\ UNCHANGED stderr
           ELSE /\ pc' = [pc EXCEPT ![c] = "raised"]
                /\ stderr' = handle_error(stderr, c)
                /\ UNCHANGED content_length
    /\ UNCHANGED <<fail_sync, main, sockOpen, exitCode, raw, body, resp, stdout>>

\* rfile.read(content_length) with a length below -1: a ValueError.
ReadRaises(c) ==
    /\ pc[c] = "reading"
    /\ content_length[c] < -1
    /\ pc' = [pc EXCEPT ![c] = "raised"]
    /\ stderr' = handle_error(stderr, c)
    /\ UNCHANGED <<fail_sync, main, sockOpen, exitCode, req, content_length,
                   raw, body, resp, stdout>>

\* What rfile.read(n) returns once the client has sent `data` and, if `eof`,
\* closed its side: n bytes, or with a short body (or n = -1, a length the
\* requests here do not send) everything up to the end of the stream.  The
\* read blocks while neither is the case.
CanRead(n, data, eof) ==
    \/ n >= 0 /\ Len(data) = n
    \/ n >= 0 /\ Len(data) < n /\ eof
    \/ n = -1 /\ eof

\* rfile.read(content_length).decode("utf-8", errors="replace")
ReadBody(c, data, eof) ==
    /\ pc[c] = "reading"
    /\ content_length[c] >= -1
    /\ CanRead(content_length[c], data, eof)
    /\ raw' = [raw EXCEPT ![c] = data]
    /\ body' = [body EXCEPT ![c] = Utf8DecodeReplace(data)]
    /\ pc' = [pc EXCEPT ![c] = "read"]
    /\ UNCHANGED <<fail_sync, main, sockOpen, exitCode, req, content_length,
                   resp, stdout, stderr>>

\* print("[mock-sync-server] received sync request:").  Each print call is
\* taken as one write of its line; nothing orders the calls of two threads.
PrintMarker(c) ==
    /\ pc[c] = "read"
    /\ stdout' = Append(stdout, [by |-> c, kind |-> "marker", text |-> Marker])
    /\ pc' = [pc EXCEPT ![c] = "marker"]
    /\ UNCHANGED <<fail_sync, main, sockOpen, exitCode, req, content_length,
                   raw, body, resp, stderr>>

\* print(body) skipped in failure mode.
PrintBody_OnlyNormal(c) ==
    /\ pc[c] = "marker"
    /\ stdout' = IF fail_sync THEN stdout
                 ELSE Append(stdout, [by |-> c, kind |-> "body", text |-> body[c]])
    /\ pc' = [pc EXCEPT ![c] = "logged"]
    /\ UNCHANGED <<fail_sync, main, sockOpen, exitCode, req, content_length,
                   raw, body, resp, stderr>>

\* print(body)
PrintBody(c) ==
    /\ pc[c] = "marker"
    /\ stdout' = Append(stdout, [by |-> c, kind |-> "body", text |-> body[c]])
    /\ pc' = [pc EXCEPT ![c] = "logged"]
    /\ UNCHANGED <<fail_sync, main, sockOpen, exitCode, req, content_length,
                   raw, body, resp, stderr>>

\* if self.server.fail_sync: 500 else 202
Respond(c) ==
    /\ pc[c] = "logged"
    /\ resp' = [resp EXCEPT ![c] = Append(@, SyncResponse(fail_sync))]
    /\ stderr' = log_request(stderr, c)
    /\ pc' = [pc EXCEPT ![c] = "done"]
    /\ UNCHANGED <<fail_sync, main, sockOpen, exitCode, req, content_length,
                   raw, body, stdout>>

\* The interrupt handled without the finally clause: the socket stays open.
Interrupt_NoClose ==
    /\ main = "serving"
    /\ main' = "closed"
    /\ UNCHANGED <<fail_sync, sockOpen, exitCode, pc, req, content_length, raw,
                   body, resp, stdout, stderr>>

\* KeyboardInterrupt in serve_forever: the loop ends, except: pass, and
\* finally: server.server_close().  The handler threads are daemon threads
\* (ThreadingHTTPServer.daemon_threads), so server_close joins nothing.
Interrupt ==
    /\ main = "serving"
    /\ sockOpen' = FALSE
    /\ main' = "closed"
    /\ UNCHANGED <<fail_sync, exitCode, pc, req, content_length, raw, body,
                   resp, stdout, stderr>>

Finished == {"idle", "done", "raised", "killed"}

\* main() returns: the interpreter exits with status 0 and the daemon handler
\* threads still running end with it.
Exit ==
    /\ main = "closed"
    /\ main' = "exited"
    /\ exitCode' = 0
    /\ pc' = [c \in Conns |-> IF pc[c] \in Finished THEN pc[c] ELSE "killed"]
    /\ UNCHANGED <<fail_sync, sockOpen, req, content_length, raw, body, resp,
                   stdout, stderr>>

Next ==
    \/ \E c \in Conns : Accept(c)
    \/ \E c \in Conns, r \in Requests : Unsupported(c, r)
    \/ \E c \in Conns, r \in Requests : Get(c, r)
    \/ \E c \in Conns, r \in Requests : PostNotFound(c, r)
    \/ \E c \in Conns, r \in Requests : PostSync(c, r)
    \/ \E c \in Conns : ReadRaises(c)
    \/ \E c \in Conns, data \in Bodies, eof \in BOOLEAN :
          ReadBody(c, data, eof)
    \/ \E c \in Conns : PrintMarker(c)
    \/ \E c \in Conns : PrintBody(c)
    \/ \E c \in Conns : Respond(c)
    \/ Interrupt
    \/ Exit

Spec == Init /\ [][Next]_vars

\* ------------------------------------------------------------------- claims
IsSync(r) == r.method = "POST" /\ r.path = "/v1/sync"

IsHealth(r) == r.method = "GET" /\ r.path = "/v1/health"

\* The handler of c has run to its end, by returning or by an exception.
Ended(c) == pc[c] \in {"done", "raised"}

\* C1: every POST /v1/sync request, whatever its body and whatever was
\* handled before it, is answered 202 "accepted" when the server was started
\* in normal mode and 500 "sync failed" when it was started in failure mode;
\* the mode is the one announced in the startup banner.
C1_SyncAnsweredByStartupMode ==
    /\ stdout[1].text = (IF fail_sync THEN "fail" ELSE "normal")
    /\ \A c \in Conns :
         IsSync(req[c]) =>
           /\ pc[c] = "done" => Len(resp[c]) = 1
           /\ \A i \in DOMAIN resp[c] :
                /\ ~fail_sync =>
                     resp[c][i].status = 202 /\ resp[c][i].body = AcceptedBody
                /\ fail_sync =>
                     resp[c][i].status = 500 /\ resp[c][i].body = SyncFailedBody

\* C1 witness: in normal mode a sync request with an empty body and, on a later
\* connection, one whose body is not valid UTF-8 have both been answered 202.
C1_Witness ==
    /\ ~fail_sync
    /\ \E c, d \in Conns :
         /\ c < d
         /\ IsSync(req[c]) /\ pc[c] = "done" /\ raw[c] = <<>>
         /\ IsSync(req[d]) /\ pc[d] = "done" /\ raw[d] = <<195>>
         /\ resp[c][1].status = 202 /\ resp[d][1].status = 202

\* C2: every request whose (method, path) is neither (GET, /v1/health) nor
\* (POST, /v1/sync), with any method and any path, is answered 404 "not found".
C2_OtherRoutesAre404 ==
    \A c \in Conns :
        (Ended(c) /\ ~IsHealth(req[c]) /\ ~IsSync(req[c])) =>
            /\ Len(resp[c]) = 1
            /\ resp[c][1].status = 404
            /\ resp[c][1].body = NotFoundBody

\* C3: every request that reaches the handler (unknown route, forced failure,
\* invalid body encoding, Content-Length missing, non-numeric or negative) ends
\* with exactly one response; no handler ends with an uncaught exception or
\* without a response.
C3_EveryHandlerSendsOneResponse ==
    \A c \in Conns :
        /\ pc[c] # "raised"
        /\ Ended(c) => Len(resp[c]) = 1

\* A handler blocked in rfile.read, waiting for its body.
Blocked(c) == pc[c] = "reading" /\ content_length[c] >= 0

\* C4: concurrent sync requests are answered independently: while a handler is
\* blocked waiting for its body, the next connection can be accepted and every
\* other handler can take its next step, and the answers to sync requests are
\* the same (the one of the startup mode) whatever the other requests are.
C4_ConcurrentSyncIndependent ==
    \A c, d \in Conns :
        c # d =>
          /\ (IsSync(req[c]) /\ IsSync(req[d]) /\ resp[c] # <<>> /\ resp[d] # <<>>)
               => /\ resp[c] = resp[d]
                  /\ resp[c][1].status \in {202, 500}
                  /\ resp[c][1].status = 500 <=> fail_sync
          /\ Blocked(c) =>
               /\ (main = "serving" /\ pc[d] = "idle"
                     /\ \A e \in Conns : e < d => pc[e] # "idle")
                    => ENABLED Accept(d)
               /\ pc[d] = "accepted"
                    => /\ ENABLED (\E r \in Requests : PostSync(d, r))
                       /\ ENABLED (\E r \in Requests : Get(d, r))
               /\ Blocked(d)
                    => ENABLED (\E data \in Bodies, eof \in BOOLEAN :
                                   ReadBody(d, data, eof))
               /\ pc[d] = "read" => ENABLED PrintMarker(d)
               /\ pc[d] = "marker" => ENABLED PrintBody(d)
               /\ pc[d] = "logged" => ENABLED Respond(d)

\* C4 witness: the first connection's sync request is still blocked waiting for
\* its body while the sync request of a connection accepted after it has been
\* logged and answered.
C4_Witness ==
    /\ Blocked(1) /\ IsSync(req[1])
    /\ \E d \in Conns :
         /\ d > 1 /\ IsSync(req[d]) /\ pc[d] = "done"
         /\ Len(resp[d]) = 1
         /\ resp[d][1].status = (IF fail_sync THEN 500 ELSE 202)

\* Standard output holds the marker line of c and, after it, the decoded body
\* of c's request.
Logged(c) ==
    \E i, j \in DOMAIN stdout :
        /\ i < j
        /\ stdout[i] = [by |-> c, kind |-> "marker", text |-> Marker]
        /\ stdout[j] = [by |-> c, kind |-> "body", text |-> Utf8DecodeReplace(raw[c])]

\* C5: in both modes, a sync request is answered only after its marker line and
\* its decoded body have been written to standard output.
C5_LoggedBeforeAnswered ==
    \A c \in Conns : (IsSync(req[c]) /\ resp[c] # <<>>) => Logged(c)

\* C5 witness: in failure mode a sync request with an invalid body was answered
\* 500 and its body is in the log with the replacement character.
C5_Witness ==
    /\ fail_sync
    /\ \E c \in Conns :
         /\ IsSync(req[c]) /\ raw[c] = <<195>>
         /\ Len(resp[c]) = 1 /\ resp[c][1].status = 500
         /\ \E j \in DOMAIN stdout :
              stdout[j] = [by |-> c, kind |-> "body", text |-> <<65533>>]

\* C6: GET /v1/health is answered 200 "ok" in both modes, whatever sync
\* requests were handled before or are being handled.
C6_HealthAlwaysOk ==
    \A c \in Conns :
        (IsHealth(req[c]) /\ pc[c] # "accepted") =>
            /\ Len(resp[c]) = 1
            /\ resp[c][1].status = 200
            /\ resp[c][1].body = OkBody

\* C6 witness: in failure mode a health check was answered 200 while a sync
\* request is between its two log lines.
C6_Witness ==
    /\ fail_sync
    /\ \E c, d \in Conns :
         /\ IsHealth(req[c]) /\ pc[c] = "done" /\ resp[c][1].status = 200
         /\ IsSync(req[d]) /\ pc[d] = "marker"

\* C7: in every 200, 202, 404 and 500 response the Content-Length header is the
\* byte length of the body and the Content-Type is text/plain.
C7_HeadersMatchBody ==
    \A c \in Conns :
        \A i \in DOMAIN resp[c] :
            resp[c][i].status \in {200, 202, 404, 500} =>
                /\ resp[c][i].content_type = "text/plain"
                /\ PyInt(resp[c][i].content_length)
                     = [ok |-> TRUE, val |-> Len(resp[c][i].body)]

\* C7 witness: a 404 and a 500 response have been sent.
C7_Witness ==
    \E c, d \in Conns :
        /\ resp[c] # <<>> /\ resp[c][1].status = 404
        /\ resp[d] # <<>> /\ resp[d][1].status = 500

\* C8: standard output holds the startup banner and the lines of sync
\* requests only, and no request leaves an access-log line of the library.
C8_OnlyBannerAndSyncLines ==
    /\ Len(stdout) >= 2
    /\ SubSeq(stdout, 1, 2) = Banner(fail_sync)
    /\ \A i \in 3..Len(stdout) :
         /\ stdout[i].kind \in {"marker", "body"}
         /\ stdout[i].by \in Conns
         /\ IsSync(req[stdout[i].by])
    /\ \A i \in DOMAIN stderr : stderr[i].kind # "access"

\* C8 witness: a health check and a request answered 404 have been handled and
\* the output is still the banner alone.
C8_Witness ==
    /\ stdout = Banner(fail_sync)
    /\ stderr = <<>>
    /\ \E c, d \in Conns :
         /\ IsHealth(req[c]) /\ pc[c] = "done"
         /\ pc[d] = "done" /\ resp[d][1].status = 404

\* C9: after the interrupt the serve loop has ended and the listening socket is
\* closed before the process exits; the exit status is 0; the exit does not
\* wait for running handlers; nothing is accepted once the socket is closed.
C9_ShutdownOnInterrupt ==
    /\ main # "serving" => ~sockOpen
    /\ main = "exited" <=> exitCode # -1
    /\ main = "exited" => exitCode = 0
    /\ main = "closed" => ENABLED Exit
    /\ ~sockOpen => \A c \in Conns : ~ENABLED Accept(c)

\* C9 witness: the process has exited with status 0 and the socket closed, a
\* handler that was waiting for its body ended with it, and a later connection
\* was never accepted.
C9_Witness ==
    /\ main = "exited" /\ exitCode = 0 /\ ~sockOpen
    /\ \E c, d \in Conns :
         /\ pc[c] = "killed" /\ IsSync(req[c]) /\ resp[c] = <<>>
         /\ pc[d] = "idle"

\* C10: in standard output each marker line is immediately followed by the
\* decoded body of the same request, also with concurrent sync requests.
C10_MarkerThenOwnBody ==
    \A i \in DOMAIN stdout :
        (stdout[i].kind = "marker" /\ i < Len(stdout)) =>
            /\ stdout[i + 1].kind = "body"
            /\ stdout[i + 1].by = stdout[i].by

====
